---- MODULE Spec2Model ----
(***************************************************************************)
(* The hand-written minibatch generator of the Tox21 graph-convolution     *)
(* notebook (examples/notebooks/graph_convolutional_networks_for_tox21):   *)
(* data_generator, the Input declarations it has to populate, and          *)
(* reshape_y_pred.  The library routines the generator calls               *)
(* (dataset.iterbatches, pad_batch, ConvMol, ConvMol.agglomerate_mols,     *)
(* to_one_hot, predict_on_generator) are modelled next to it.              *)
(*                                                                         *)
(* Indices are the program's 0-based indices; a Python list or numpy array *)
(* is a TLA+ sequence, so element i of array a is a[i + 1].                *)
(***************************************************************************)
EXTENDS Integers, Sequences, FiniteSets

---------------------------------------------------------------------------
(* Program constants *)

\* batch_size = 50 (notebook cell 11)
batch_size == 50

\* ConvMol's default max_deg / min_deg (mol_graphs.py)
max_deg == 10
min_deg == 0

---------------------------------------------------------------------------
(* Bounds of the model *)

\* data_generator is run with epochs in 1..MaxEpochs
MaxEpochs == 2

\* datasets hold up to MaxSamples samples
MaxSamples == 101

\* n_tasks = len(tox21_tasks): the number of label columns of the dataset
n_tasks == 2

\* number of different dataset compositions tried for every dataset size
NumLayouts == 2

---------------------------------------------------------------------------
(* numpy / Python helpers *)

\* range(a, b) as a sequence
Range(a, b) == [i \in 1..(IF b > a THEN b - a ELSE 0) |-> a + i - 1]

\* sum(s[lo..hi]), by halving so that the evaluation stays shallow
RECURSIVE SumRange(_, _, _)
SumRange(s, lo, hi) ==
  IF lo > hi THEN 0
  ELSE IF lo = hi THEN s[lo]
  ELSE LET mid == (lo + hi) \div 2
       IN SumRange(s, lo, mid) + SumRange(s, mid + 1, hi)

\* sum of a sequence of integers
SumSeq(s) == SumRange(s, 1, Len(s))

\* concatenation of ss[lo..hi]
RECURSIVE FlattenRange(_, _, _)
FlattenRange(ss, lo, hi) ==
  IF lo > hi THEN <<>>
  ELSE IF lo = hi THEN ss[lo]
  ELSE LET mid == (lo + hi) \div 2
       IN FlattenRange(ss, lo, mid) \o FlattenRange(ss, mid + 1, hi)

\* list concatenation of a sequence of sequences (np.vstack of row blocks)
Flatten(ss) == FlattenRange(ss, 1, Len(ss))

\* the indices i in range(n) that satisfy Test, in increasing order
SelectIdx(n, Test(_)) ==
  Flatten([k \in 1..n |-> IF Test(k - 1) THEN <<k - 1>> ELSE <<>>])

\* <<base, base + l[lo], ..., base + l[lo] + ... + l[hi - 1]>>: the running
\* sums before each of l[lo..hi]
RECURSIVE RunningSums(_, _, _, _)
RunningSums(l, lo, hi, base) ==
  IF lo > hi THEN <<>>
  ELSE IF lo = hi THEN <<base>>
  ELSE LET mid == (lo + hi) \div 2
       IN RunningSums(l, lo, mid, base)
            \o RunningSums(l, mid + 1, hi, base + SumRange(l, lo, mid))

\* np.insert(np.cumsum(l), 0, 0): the prefix sums, with a leading 0
cumulative_sum(l) == RunningSums(l, 1, Len(l), 0) \o <<SumSeq(l)>>

\* np.delete(np.insert(np.cumsum(l), 0, 0), -1): the prefix sums without the total
cumulative_sum_minus_last(l) == RunningSums(l, 1, Len(l), 0)

\* a sequence with its elements computed once (np.array(...) of a list)
Strict(s) == s \o <<>>

\* the degrees range(min_deg, max_deg + 1)
Degrees == Range(min_deg, max_deg + 1)

---------------------------------------------------------------------------
(* ConvMol: one featurized molecule *)

\* ConvMol.__init__ with _deg_sort: atoms reordered by (degree, original index),
\* the adjacency lists renumbered and grouped by degree.
ConvMol(atom_features, adj_list) ==
  LET n        == Len(adj_list)
      nd       == max_deg + 1 - min_deg
      deg0     == [i \in 1..n |-> Len(adj_list[i])]
      \* np.lexsort((old_ind, deg_list)): position of old atom i in the new order
      rank(i)  == Cardinality({j \in 0..(n - 1) :
                     \/ deg0[j + 1] < deg0[i + 1]
                     \/ deg0[j + 1] = deg0[i + 1] /\ j < i})
      new_ind  == Strict([r \in 1..n |-> CHOOSE i \in 0..(n - 1) : rank(i) = r - 1])
      feats    == Strict([r \in 1..n |-> atom_features[new_ind[r] + 1]])
      deg_list == Strict([r \in 1..n |-> deg0[new_ind[r] + 1]])
      \* old_to_new[k] is rank(k)
      canon    == Strict([r \in 1..n |->
                     Strict([j \in 1..deg_list[r] |-> rank(adj_list[new_ind[r] + 1][j])])])
      adj_of(deg) ==
         LET idx == SelectIdx(n, LAMBDA i : deg_list[i + 1] = deg)
         IN Strict([k \in 1..Len(idx) |-> canon[idx[k] + 1]])
      dal      == Strict([d \in 1..nd |-> adj_of(d - 1 + min_deg)])
      sizes    == Strict([d \in 1..nd |->
                     Cardinality({i \in 1..n : deg_list[i] = d - 1 + min_deg})])
      starts   == Strict(cumulative_sum(sizes))
      \* deg_slice[:, 0] *= (deg_slice[:, 1] != 0)
      slice    == Strict([d \in 1..nd |->
                     <<IF sizes[d] = 0 THEN 0 ELSE starts[d], sizes[d]>>])
  IN [ n_atoms           |-> n,
       atom_features     |-> feats,
       deg_list          |-> deg_list,
       canon_adj_list    |-> canon,
       deg_adj_lists     |-> dal,
       deg_slice         |-> slice,
       deg_id_list       |-> Strict([i \in 1..n |-> deg_list[i] - min_deg]),
       deg_block_indices |-> Strict([i \in 1..n |->
                               (i - 1) - starts[deg_list[i] - min_deg + 1]]) ]

\* ConvMol.get_num_atoms_with_deg
get_num_atoms_with_deg(mol, deg) == mol.deg_slice[deg - min_deg + 1][2]

\* ConvMol.get_atoms_with_deg: atom_features[start : start + size]
get_atoms_with_deg(mol, deg) ==
  LET start == mol.deg_slice[deg - min_deg + 1][1]
      size  == mol.deg_slice[deg - min_deg + 1][2]
  IN [i \in 1..size |-> mol.atom_features[start + i]]

---------------------------------------------------------------------------
(* ConvMol.agglomerate_mols: the batched molecular graph *)

\* a numpy int array of shape (n, width), kept with its shape so that an
\* empty array still has a row width
Array2D(rows, width) == [shape |-> <<Len(rows), width>>, rows |-> rows]

\* ConvMol.agglomerate_mols(mols): concatenate the molecules' atoms grouped by
\* degree, compute the degree slices and the membership, and renumber every
\* adjacency entry to its index in the batch.
agglomerate_mols(mols) ==
  LET num_mols   == Len(mols)
      nd         == Len(Degrees)
      \* atoms of every degree block, molecule by molecule
      all_atoms  == Flatten([p \in 1..(nd * num_mols) |->
                      get_atoms_with_deg(mols[((p - 1) % num_mols) + 1],
                                         Degrees[((p - 1) \div num_mols) + 1])])
      mol_deg_sz == Strict([d \in 1..nd |-> Strict([k \in 1..num_mols |->
                      get_num_atoms_with_deg(mols[k], Degrees[d])])])
      deg_sizes  == Strict([d \in 1..nd |-> SumSeq(mol_deg_sz[d])])
      deg_start  == Strict(cumulative_sum_minus_last(deg_sizes))
      deg_slice  == [d \in 1..nd |-> <<deg_start[d], deg_sizes[d]>>]
      membership == Flatten([p \in 1..(nd * num_mols) |->
                      LET k == ((p - 1) % num_mols) + 1
                          d == ((p - 1) \div num_mols) + 1
                      IN [i \in 1..mol_deg_sz[d][k] |-> k - 1]])
      start_by_deg  == Strict([d \in 1..nd |->
                         Strict(cumulative_sum_minus_last(mol_deg_sz[d]))])
      start_per_mol == Strict([d \in 1..nd |-> Strict([k \in 1..num_mols |->
                         deg_start[d] + start_by_deg[d][k]])])
      to_final_id(mol_atom_id, mol_id) ==
         LET deg_id == mols[mol_id + 1].deg_id_list[mol_atom_id + 1]
         IN start_per_mol[deg_id + 1][mol_id + 1]
              + mols[mol_id + 1].deg_block_indices[mol_atom_id + 1]
      deg_adj_lists == [d \in 1..nd |->
         Array2D(Flatten([k \in 1..num_mols |->
                   LET nbr_list == mols[k].deg_adj_lists[d]
                   IN [i \in 1..Len(nbr_list) |->
                         [j \in 1..Len(nbr_list[i]) |->
                            to_final_id(nbr_list[i][j], k - 1)]]]),
                 Degrees[d])]
  IN [ atom_features |-> all_atoms,
       deg_adj_lists |-> deg_adj_lists,
       deg_slice     |-> deg_slice,
       membership    |-> membership,
       num_mols      |-> num_mols ]

---------------------------------------------------------------------------
(* Dataset.iterbatches and pad_batch *)

\* number of batches of one pass over n_samples samples: ceil(n / batch_size)
NumBatches(n_samples) == (n_samples + batch_size - 1) \div batch_size

\* pad_batch: fill the batch up to batch_size by wrapping around its samples;
\* the weights of the added samples are zero.  n_real records how many of the
\* rows are samples of the dataset rather than padding.
pad_batch(size, b) ==
  LET num_samples == Len(b.X)
  IN IF num_samples = size THEN b
     ELSE [ X   |-> [j \in 1..size |-> b.X[((j - 1) % num_samples) + 1]],
            y   |-> [j \in 1..size |-> b.y[((j - 1) % num_samples) + 1]],
            w   |-> [j \in 1..size |->
                      IF j <= num_samples THEN b.w[j]
                      ELSE [t \in 1..n_tasks |-> 0]],
            ids |-> [j \in 1..size |-> b.ids[((j - 1) % num_samples) + 1]],
            n_real |-> b.n_real ]

\* the batch_idx-th batch of dataset.iterbatches(batch_size, pad_batches,
\* deterministic=True): samples start..end-1 in dataset order
iterbatches(dataset, batch_idx, pad_batches) ==
  LET n_samples == Len(dataset.X)
      start == batch_idx * batch_size
      end   == IF (batch_idx + 1) * batch_size < n_samples
               THEN (batch_idx + 1) * batch_size ELSE n_samples
      b == [ X   |-> [j \in 1..(end - start) |-> dataset.X[start + j]],
             y   |-> [j \in 1..(end - start) |-> dataset.y[start + j]],
             w   |-> [j \in 1..(end - start) |-> dataset.w[start + j]],
             ids |-> [j \in 1..(end - start) |-> dataset.ids[start + j]],
             n_real |-> end - start ]
  IN IF pad_batches THEN pad_batch(batch_size, b) ELSE b

---------------------------------------------------------------------------
(* The notebook: Input declarations, data_generator, reshape_y_pred *)

\* the Input layers of the hand-built model, in declaration order:
\* atom_features, degree_slice, membership, then deg_adjs
deg_adjs == [k \in 1..Len(Range(0, 10 + 1)) |->
               [shape |-> <<Range(0, 10 + 1)[k] + 1>>, dtype |-> "int32"]]

model_inputs ==
  << [shape |-> <<75>>, dtype |-> "float32"],
     [shape |-> <<2>>,  dtype |-> "int32"],
     [shape |-> <<>>,   dtype |-> "int32"] >> \o deg_adjs

\* to_one_hot(y, 2): one row per entry, a 1 in the column of its class
to_one_hot(y, n_classes) ==
  [i \in 1..Len(y) |-> [c \in 1..n_classes |-> IF y[i] = c - 1 THEN 1 ELSE 0]]

\* a.reshape(-1, n, 2) of an array of rows of length 2
reshape_rows(a, n) ==
  [r \in 1..(Len(a) \div n) |-> [t \in 1..n |-> a[(r - 1) * n + t]]]

\* generator_inputs with the loop's offset applied to the degree slice too
generator_inputs_slice_from_1(multiConvMol) ==
  << multiConvMol.atom_features,
     SubSeq(multiConvMol.deg_slice, 2, Len(multiConvMol.deg_slice)),
     multiConvMol.membership >>
    \o [k \in 1..Len(Range(1, Len(multiConvMol.deg_adj_lists))) |->
          multiConvMol.deg_adj_lists[Range(1, Len(multiConvMol.deg_adj_lists))[k] + 1]]

\* generator_inputs with membership and degree slice in the wrong order
generator_inputs_membership_first(multiConvMol) ==
  << multiConvMol.atom_features, multiConvMol.membership, multiConvMol.deg_slice >>
    \o [k \in 1..Len(Range(1, Len(multiConvMol.deg_adj_lists))) |->
          multiConvMol.deg_adj_lists[Range(1, Len(multiConvMol.deg_adj_lists))[k] + 1]]

\* generator_inputs with the adjacency loop starting at range(0, ...)
generator_inputs_from_degree_0(multiConvMol) ==
  << multiConvMol.atom_features, multiConvMol.deg_slice, multiConvMol.membership >>
    \o [k \in 1..Len(Range(0, Len(multiConvMol.deg_adj_lists))) |->
          multiConvMol.deg_adj_lists[Range(0, Len(multiConvMol.deg_adj_lists))[k] + 1]]

\* the inputs list built from one batched graph: features, degree slice,
\* membership, then get_deg_adjacency_lists()[i] for i in range(1, len(...))
generator_inputs(multiConvMol) ==
  << multiConvMol.atom_features, multiConvMol.deg_slice, multiConvMol.membership >>
    \o [k \in 1..Len(Range(1, Len(multiConvMol.deg_adj_lists))) |->
          multiConvMol.deg_adj_lists[Range(1, Len(multiConvMol.deg_adj_lists))[k] + 1]]

\* generator_tuple with the atom features of the real samples only
generator_tuple_real_atoms_only(b, predict) ==
  LET multiConvMol == agglomerate_mols(b.X)
      realMol == agglomerate_mols(SubSeq(b.X, 1, b.n_real))
  IN [ inputs  |-> generator_inputs([multiConvMol EXCEPT
                                       !.atom_features = realMol.atom_features]),
       labels  |-> << reshape_rows(to_one_hot(Flatten(b.y), 2), n_tasks) >>,
       weights |-> << b.w >> ]

\* generator_tuple that leaves the labels out when predicting
generator_tuple_no_labels_on_predict(b, predict) ==
  LET multiConvMol == agglomerate_mols(b.X)
  IN [ inputs  |-> generator_inputs(multiConvMol),
       labels  |-> IF predict THEN <<>>
                   ELSE << reshape_rows(to_one_hot(Flatten(b.y), 2), n_tasks) >>,
       weights |-> << b.w >> ]

\* the body of data_generator's inner loop: the tuple yielded for one batch
generator_tuple(b, predict) ==
  LET multiConvMol == agglomerate_mols(b.X)
  IN [ inputs  |-> generator_inputs(multiConvMol),
       labels  |-> << reshape_rows(to_one_hot(Flatten(b.y), 2), n_tasks) >>,
       weights |-> << b.w >> ]

\* predict_on_generator on one yielded tuple: one output row per molecule slot
\* of GraphGather(batch_size), each row holding for every task the pair
\* (negative, positive) of class scores.  The network is a
\* stand-in that reads, like GraphGather, the atoms whose membership is the
\* molecule's index.
model_outputs(tuple) ==
  LET feats == tuple.inputs[1]
      memb  == tuple.inputs[3]
      score(m) == SumSeq([g \in 1..Len(feats) |->
                    IF memb[g] = m THEN feats[g][1] * 4 + feats[g][2] + 1 ELSE 0]) % 97
  IN [m \in 1..batch_size |->
        LET sc == score(m - 1)
        IN [t \in 1..n_tasks |-> << 100 - (sc + t), sc + t >>]]

\* reshape_y_pred keeping column 0, the negative score
reshape_y_pred_column_0(y_true, y_pred) ==
  LET n_samples == Len(y_true)
      kept == IF n_samples < Len(y_pred) THEN n_samples ELSE Len(y_pred)
  IN [i \in 1..kept |-> [t \in 1..Len(y_pred[i]) |-> y_pred[i][t][0 + 1]]]

\* reshape_y_pred(y_true, y_pred) == y_pred[:n_samples, :, 1]
reshape_y_pred(y_true, y_pred) ==
  LET n_samples == Len(y_true)
      kept == IF n_samples < Len(y_pred) THEN n_samples ELSE Len(y_pred)
  IN [i \in 1..kept |-> [t \in 1..Len(y_pred[i]) |-> y_pred[i][t][1 + 1]]]

---------------------------------------------------------------------------
(* Input data: molecules and datasets *)

\* the molecular graphs the datasets are made of, as adjacency lists over the
\* atoms in their original order: a lone atom, a bonded pair, a chain whose
\* middle atom comes first, a triangle, a star with its centre first
Graphs ==
  << << <<>> >>,
     << <<1>>, <<0>> >>,
     << <<1, 2>>, <<0>>, <<0>> >>,
     << <<1, 2>>, <<0, 2>>, <<0, 1>> >>,
     << <<1, 2, 3>>, <<0>>, <<0>>, <<0>> >> >>

\* the featurized molecules; the feature vector of an atom is stood for by
\* the pair (molecule kind, original atom index)
Molecules ==
  Strict([k \in 1..Len(Graphs) |->
     ConvMol([a \in 1..Len(Graphs[k]) |-> <<k, a - 1>>], Graphs[k])])

\* a dataset of n samples: sample i holds a molecule, n_tasks labels in {0, 1},
\* n_tasks weights and its id (its position in the dataset)
MakeDataset(n, layout) ==
  [ X   |-> Strict([i \in 1..n |->
              Molecules[(((i - 1) * (layout + 1) + ((i - 1) \div 3)) % Len(Graphs)) + 1]]),
    y   |-> Strict([i \in 1..n |-> Strict([t \in 1..n_tasks |-> (i + t + layout) % 2])]),
    w   |-> Strict([i \in 1..n |-> Strict([t \in 1..n_tasks |->
              IF (i + 2 * t + layout) % 3 = 0 THEN 0 ELSE 1])]),
    ids |-> Strict([i \in 1..n |-> i - 1]) ]

\* the dataset sizes tried: the sizes next to a multiple of batch_size, and
\* the largest size
DatasetSizes ==
  { n \in 1..MaxSamples :
      \/ n = MaxSamples
      \/ \E k \in 0..(MaxSamples \div batch_size) : n - k * batch_size \in {-1, 0, 1} }

---------------------------------------------------------------------------
(* data_generator as a generator object *)

\* the epoch loop running once too often: range(epochs + 1)
generator_has_next_one_more(epochs, epoch) == epoch < epochs + 1

\* for epoch in range(epochs): whether the generator has another batch to yield
\* when resumed at the start of epoch number epoch
generator_has_next(epochs, epoch) == epoch < epochs

\* iterbatches called without passing pad_batches on (its default is False)
generator_batch_never_padded(dataset, ind, pad_batches) == iterbatches(dataset, ind, FALSE)

\* enumerate(dataset.iterbatches(batch_size, pad_batches=pad_batches,
\* deterministic=True)): the batch with index ind
generator_batch(dataset, ind, pad_batches) == iterbatches(dataset, ind, pad_batches)

\* data_generator with the batched graph built once, before the loop, from the
\* first batch
data_generator_yield_first_graph(dataset, ind, predict, pad_batches) ==
  [ generator_tuple(generator_batch(dataset, ind, pad_batches), predict) EXCEPT
      !.inputs = generator_tuple(generator_batch(dataset, 0, pad_batches), predict).inputs ]

\* the tuple data_generator yields for batch ind of an epoch
data_generator_yield(dataset, ind, predict, pad_batches) ==
  generator_tuple(generator_batch(dataset, ind, pad_batches), predict)

\* the loop position after batch ind of epoch epoch
generator_advance(dataset, epoch, ind) ==
  IF ind + 1 < NumBatches(Len(dataset.X))
  THEN [epoch |-> epoch, ind |-> ind + 1]
  ELSE [epoch |-> epoch + 1, ind |-> 0]

---------------------------------------------------------------------------
(* State *)

VARIABLES
  dataset,            \* the dataset handed to data_generator
  epochs,             \* data_generator's arguments
  predict,
  pad_batches,
  epoch,              \* the generator's loop variables: the next batch to yield
  ind,
  pc,                 \* "running", "exhausted" (StopIteration), "scored"
  yielded,            \* the tuples yielded so far, in order
  frames,             \* ghost: for every yield, the loop variables and the
                      \* batch (ids_b, number of real samples) it was built from
  y_pred,             \* predict_on_generator's outputs, concatenated
  y_pred_src,         \* ghost: for every row of y_pred, the sample it predicts
  train_predictions,  \* the result of reshape_y_pred
  second              \* a second data_generator over the same dataset

vars == << dataset, epochs, predict, pad_batches, epoch, ind, pc, yielded,
           frames, y_pred, y_pred_src, train_predictions, second >>

args == << dataset, epochs, predict, pad_batches >>

NoSecond == [predict |-> FALSE, epoch |-> 0, ind |-> 0, pc |-> "absent", yielded |-> <<>>]

InitRun ==
  /\ \E n \in DatasetSizes, layout \in 0..(NumLayouts - 1) :
        dataset = MakeDataset(n, layout)
  /\ epochs \in 1..MaxEpochs
  /\ predict \in BOOLEAN
  /\ pad_batches \in BOOLEAN
  /\ epoch = 0
  /\ ind = 0
  /\ pc = "running"
  /\ yielded = <<>>
  /\ frames = <<>>
  /\ y_pred = <<>>
  /\ y_pred_src = <<>>
  /\ train_predictions = <<>>

Init == InitRun /\ second = NoSecond

\* next(generator) yields a tuple
Yield ==
  /\ pc = "running"
  /\ generator_has_next(epochs, epoch)
  /\ LET b   == generator_batch(dataset, ind, pad_batches)
         pos == generator_advance(dataset, epoch, ind)
     IN /\ yielded' = Append(yielded, data_generator_yield(dataset, ind, predict, pad_batches))
        /\ frames' = Append(frames, [epoch |-> epoch, ind |-> ind,
                                     ids |-> b.ids, n_real |-> b.n_real])
        /\ epoch' = pos.epoch
        /\ ind' = pos.ind
  /\ UNCHANGED << args, pc, train_predictions, second >>

\* model.fit_generator(data_generator(dataset, epochs)): one training step
FitStep ==
  /\ ~predict
  /\ Yield
  /\ UNCHANGED << y_pred, y_pred_src >>

\* model.predict_on_generator(data_generator(dataset, predict=True)): the
\* outputs for one batch are appended to the results
PredictStep ==
  /\ predict
  /\ Yield
  /\ y_pred' = y_pred \o model_outputs(yielded'[Len(yielded')])
  /\ LET f == frames'[Len(frames')]
     IN y_pred_src' = y_pred_src \o
          [m \in 1..batch_size |->
             IF m <= Len(f.ids) THEN [id |-> f.ids[m], real |-> m <= f.n_real]
             ELSE [id |-> -1, real |-> FALSE]]

\* next(generator) raises StopIteration
Stop ==
  /\ pc = "running"
  /\ ~generator_has_next(epochs, epoch)
  /\ pc' = "exhausted"
  /\ UNCHANGED << args, epoch, ind, yielded, frames, y_pred, y_pred_src,
                  train_predictions, second >>

\* train_predictions = reshape_y_pred(train_dataset.y, train_predictions)
Reshape ==
  /\ pc = "exhausted"
  /\ predict
  /\ train_predictions' = reshape_y_pred(dataset.y, y_pred)
  /\ pc' = "scored"
  /\ UNCHANGED << args, epoch, ind, yielded, frames, y_pred, y_pred_src, second >>

Next == FitStep \/ PredictStep \/ Stop \/ Reshape

Spec == Init /\ [][Next]_vars

---------------------------------------------------------------------------
(* Two generators over the same dataset, run one after the other, as the     *)
(* notebook runs fit_generator and then predict_on_generator                 *)

InitPair ==
  /\ InitRun
  /\ \E p \in BOOLEAN :
       second = [predict |-> p, epoch |-> 0, ind |-> 0, pc |-> "running", yielded |-> <<>>]

FirstDone == pc = "scored" \/ (pc = "exhausted" /\ ~predict)

\* next() on the second generator yields a tuple
SecondYield ==
  /\ FirstDone
  /\ second.pc = "running"
  /\ generator_has_next(epochs, second.epoch)
  /\ LET pos == generator_advance(dataset, second.epoch, second.ind)
     IN second' = [second EXCEPT
          !.yielded = Append(@, data_generator_yield(dataset, second.ind,
                                                     second.predict, pad_batches)),
          !.epoch = pos.epoch,
          !.ind = pos.ind]
  /\ UNCHANGED << args, epoch, ind, pc, yielded, frames, y_pred, y_pred_src,
                  train_predictions >>

\* next() on the second generator raises StopIteration
SecondStop ==
  /\ FirstDone
  /\ second.pc = "running"
  /\ ~generator_has_next(epochs, second.epoch)
  /\ second' = [second EXCEPT !.pc = "exhausted"]
  /\ UNCHANGED << args, epoch, ind, pc, yielded, frames, y_pred, y_pred_src,
                  train_predictions >>

NextPair == FitStep \/ PredictStep \/ Stop \/ Reshape \/ SecondYield \/ SecondStop

SpecPair == InitPair /\ [][NextPair]_vars

---------------------------------------------------------------------------
(* Properties *)

(* Every tuple is the latest one in the state that its yield leads to, and   *)
(* the tuples yielded before it are never changed afterwards (FreshBatches   *)
(* below), so a property of the latest tuple that holds in every reachable   *)
(* state holds of every tuple the generator yields.                          *)

HasYielded == Len(yielded) > 0
LastTuple == yielded[Len(yielded)]
LastFrame == frames[Len(frames)]

\* the parts of the latest tuple's inputs list
LastFeatures == LastTuple.inputs[1]
LastDegSlice == LastTuple.inputs[2]
LastMembership == LastTuple.inputs[3]
NumAtoms == Len(LastFeatures)

\* the molecule in slot m (0-based) of the latest batch
BatchMol(m) == dataset.X[LastFrame.ids[m + 1] + 1]

\* the latest batch was filled up with padding samples
LastIsPadded == HasYielded /\ LastFrame.n_real < Len(LastFrame.ids)

\* C1: every yielded inputs list holds one array per declared Input (14: atom
\* features, degree slice, membership and the 11 deg_adjs), in declaration
\* order, and the k-th adjacency array has the row width declared for the k-th
\* deg_adj Input.
AllInputsPopulated ==
  HasYielded =>
    /\ Len(LastTuple.inputs) = Len(model_inputs)
    /\ \A k \in 1..Len(deg_adjs) :
         LastTuple.inputs[3 + k].shape[2] = deg_adjs[k].shape[1]

\* C2: the degree slices of every yielded batch partition the atom index range
\* 0..N-1: every slice [start, start + size) lies inside the range and every
\* atom index lies in the slice of exactly one degree.
DegreeSlicesPartition ==
  HasYielded =>
    /\ \A d \in 1..Len(LastDegSlice) :
         /\ LastDegSlice[d][1] >= 0
         /\ LastDegSlice[d][2] >= 0
         /\ LastDegSlice[d][1] + LastDegSlice[d][2] <= NumAtoms
    /\ \A g \in 0..(NumAtoms - 1) :
         Cardinality({d \in 1..Len(LastDegSlice) :
                        /\ LastDegSlice[d][1] <= g
                        /\ g < LastDegSlice[d][1] + LastDegSlice[d][2]}) = 1

\* a padded batch whose atoms fall into several degree slices, next to empty ones
DegreeSlicesPartitionWitness ==
  /\ LastIsPadded
  /\ LastDegSlice[1][2] > 0
  /\ LastDegSlice[3][2] > 0
  /\ LastDegSlice[4][2] > 0
  /\ LastDegSlice[5][2] = 0

\* C3: every entry of every adjacency array of every yielded batch is an atom
\* index of that batch, an integer in 0..N-1 with N the number of rows of the
\* atom feature matrix; also in a padded batch.
AdjacencyEntriesValid ==
  HasYielded =>
    \A k \in 4..Len(LastTuple.inputs) :
      \A r \in 1..Len(LastTuple.inputs[k].rows) :
        \A j \in 1..Len(LastTuple.inputs[k].rows[r]) :
          LastTuple.inputs[k].rows[r][j] \in 0..(NumAtoms - 1)

\* a padded last batch of a second epoch that has adjacency entries
AdjacencyEntriesValidWitness ==
  /\ LastIsPadded
  /\ LastFrame.epoch > 0
  /\ LastFrame.ind > 0
  /\ Len(LastTuple.inputs[5].rows) > 0

\* C4: every atom of a yielded batch belongs to exactly one molecule: the
\* membership vector has one entry per atom, every entry is the index of a
\* molecule of the batch, and the number of atoms mapped to molecule m is the
\* atom count of the m-th molecule of the batch.
MembershipExact ==
  HasYielded =>
    /\ Len(LastMembership) = NumAtoms
    /\ \A g \in 1..NumAtoms : LastMembership[g] \in 0..(Len(LastFrame.ids) - 1)
    /\ \A m \in 0..(Len(LastFrame.ids) - 1) :
         Cardinality({g \in 1..NumAtoms : LastMembership[g] = m}) = BatchMol(m).n_atoms

\* a batch that is not full (no padding asked for) with molecules of several sizes
MembershipExactWitness ==
  /\ HasYielded
  /\ ~pad_batches
  /\ Len(LastFrame.ids) \in 2..(batch_size - 1)
  /\ \E m1, m2 \in 0..(Len(LastFrame.ids) - 1) :
       BatchMol(m1).n_atoms = 1 /\ BatchMol(m2).n_atoms = 4

\* C7: with pad_batches=True every yielded tuple represents exactly batch_size
\* molecules: the membership values are exactly 0..batch_size-1, and the labels
\* and the weights have batch_size rows.
PaddedBatchesAreFull ==
  (HasYielded /\ pad_batches) =>
    /\ {LastMembership[g] : g \in 1..NumAtoms} = 0..(batch_size - 1)
    /\ Len(LastTuple.labels[1]) = batch_size
    /\ Len(LastTuple.weights[1]) = batch_size

\* the last batch of an epoch over a dataset whose size is no multiple of
\* batch_size, filled up from a single real sample
PaddedBatchesAreFullWitness ==
  /\ pad_batches
  /\ LastIsPadded
  /\ LastFrame.ind > 0
  /\ LastFrame.n_real = 1

\* the original atom indices bonded to original atom a of a molecule of kind k
Bonded(k, a) == {Graphs[k][a + 1][j] : j \in 1..Len(Graphs[k][a + 1])}

\* C8: for every degree d >= 1 the adjacency array for degree d has one row
\* per atom of the degree-d slice and d entries per row, and the row of the
\* batch index of atom a of molecule m holds exactly the batch indices of a's
\* bonded neighbours in m (all of them atoms of the same molecule).  An atom
\* is identified by its molecule slot and its feature vector.
BondsPreserved ==
  HasYielded =>
    \* a batch index stands for one atom of one molecule, and no atom has two
    /\ Cardinality({<<LastMembership[g], LastFeatures[g]>> : g \in 1..NumAtoms}) = NumAtoms
    /\ \A g \in 1..NumAtoms :
         LastFeatures[g][1] = BatchMol(LastMembership[g]).atom_features[1][1]
    /\ \A d \in 1..max_deg :
         LET arr   == LastTuple.inputs[3 + d]
             start == LastDegSlice[d + 1][1]
             size  == LastDegSlice[d + 1][2]
         IN /\ arr.shape = <<size, d>>
            /\ Len(arr.rows) = size
            /\ \A r \in 1..size :
                 LET row == arr.rows[r]
                     g   == start + r
                 IN /\ Len(row) = d
                    /\ \A j \in 1..d :
                         /\ row[j] \in 0..(NumAtoms - 1)
                         /\ LastMembership[row[j] + 1] = LastMembership[g]
                         /\ LastFeatures[row[j] + 1][1] = LastFeatures[g][1]
                    /\ {LastFeatures[row[j] + 1][2] : j \in 1..d}
                         = Bonded(LastFeatures[g][1], LastFeatures[g][2])
                    /\ Cardinality(Bonded(LastFeatures[g][1], LastFeatures[g][2])) = d

\* a batch with bonds of atoms of degree 1, 2 and 3, in which the atoms of one
\* molecule are not contiguous
BondsPreservedWitness ==
  /\ HasYielded
  /\ Len(LastTuple.inputs[4].rows) > 0
  /\ Len(LastTuple.inputs[5].rows) > 0
  /\ Len(LastTuple.inputs[6].rows) > 0
  /\ \E g \in 1..(NumAtoms - 2) :
       /\ LastMembership[g] = LastMembership[NumAtoms]
       /\ LastMembership[g + 1] # LastMembership[g]

\* C5: after predict_on_generator over data_generator(dataset, predict=True)
\* with padded batches, reshape_y_pred returns one row per dataset sample, row
\* i holds for every task the positive score the model gave for sample i as a
\* real sample, and none of the rows it keeps is a row of a padding sample.
PredictionsForSamples ==
  (pc = "scored" /\ pad_batches) =>
    /\ Len(train_predictions) = Len(dataset.y)
    /\ \A i \in 1..Len(dataset.y) :
         /\ y_pred_src[i].real
         /\ \E r \in 1..Len(y_pred) :
              /\ y_pred_src[r] = [id |-> dataset.ids[i], real |-> TRUE]
              /\ train_predictions[i] = [t \in 1..n_tasks |-> y_pred[r][t][2]]

\* predictions of a dataset that needs two batches, the second one padded
PredictionsForSamplesWitness ==
  /\ pc = "scored"
  /\ pad_batches
  /\ Len(dataset.y) = batch_size + 1
  /\ Len(y_pred) = 2 * batch_size
  /\ ~y_pred_src[2 * batch_size].real
  /\ Len(train_predictions) = batch_size + 1

\* ceil(n / batch_size), for n >= 1
CeilBatches(n) == CHOOSE k \in 1..n : (k - 1) * batch_size < n /\ n <= k * batch_size

\* C6: data_generator(dataset, epochs=E) yields E * ceil(N / batch_size) tuples
\* and is then exhausted; the batches come epoch by epoch and, within an epoch,
\* in dataset order; within an epoch every sample is a real (non-padding)
\* sample of exactly one batch.
GeneratorCoversEveryEpoch ==
  LET N  == Len(dataset.X)
      nb == CeilBatches(N)
      K  == Len(frames)
  IN /\ Len(yielded) = K
     /\ K <= epochs * nb
     /\ pc # "running" => K = epochs * nb
     /\ HasYielded =>
          /\ LastFrame.epoch = (K - 1) \div nb
          /\ LastFrame.ind = (K - 1) % nb
          /\ LastFrame.n_real =
               (IF N - LastFrame.ind * batch_size < batch_size
                THEN N - LastFrame.ind * batch_size ELSE batch_size)
          /\ \A j \in 1..LastFrame.n_real :
               LastFrame.ids[j] = dataset.ids[LastFrame.ind * batch_size + j]
          /\ K % nb = 0 =>
               \A i \in 1..N :
                 Cardinality({k \in (K - nb + 1)..K :
                    /\ frames[k].epoch = LastFrame.epoch
                    /\ \E j \in 1..frames[k].n_real :
                         frames[k].ids[j] = dataset.ids[i]}) = 1

\* a generator exhausted after two epochs of three batches each
GeneratorCoversEveryEpochWitness ==
  /\ pc = "exhausted"
  /\ epochs = 2
  /\ Len(dataset.X) = 2 * batch_size + 1
  /\ Len(yielded) = 6

\* the tuple t was built from the molecules of the batch of frame f alone
BuiltFrom(t, f) ==
  LET feats == t.inputs[1]
      memb  == t.inputs[3]
      N     == Len(feats)
      M     == Len(f.ids)
  IN /\ N = SumSeq([m \in 1..M |-> dataset.X[f.ids[m] + 1].n_atoms])
     /\ Len(memb) = N
     /\ t.inputs[2][1][1] = 0
     /\ \E g \in 1..N : memb[g] = 0
     /\ \A g \in 1..N :
          /\ memb[g] \in 0..(M - 1)
          /\ \E a \in 1..dataset.X[f.ids[memb[g] + 1] + 1].n_atoms :
               dataset.X[f.ids[memb[g] + 1] + 1].atom_features[a] = feats[g]
     /\ \A k \in 4..Len(t.inputs) :
          \A r \in 1..Len(t.inputs[k].rows) :
            \A j \in 1..Len(t.inputs[k].rows[r]) : t.inputs[k].rows[r][j] < N

\* C9: the batched graph is built afresh for every minibatch from that
\* minibatch's molecules only: its atom count is the sum of the atom counts of
\* the batch's molecules, atom and molecule indices start again from 0, every
\* atom is an atom of a molecule of this batch, and producing a batch leaves
\* the dataset and all tuples yielded before unchanged.
FreshBatches ==
  [][ /\ dataset' = dataset
      /\ Len(yielded') >= Len(yielded)
      /\ SubSeq(yielded', 1, Len(yielded)) = yielded
      /\ Len(yielded') > Len(yielded) =>
           BuiltFrom(yielded'[Len(yielded')], frames'[Len(frames')]) ]_vars

\* a second batch has been yielded, of another size than the first
FreshBatchesWitness ==
  /\ Len(yielded) >= 2
  /\ frames[2].ind = 1
  /\ Len(yielded[2].inputs[1]) # Len(yielded[1].inputs[1])
  /\ Len(yielded[2].inputs[1]) > batch_size

\* C10: data_generator ignores its predict argument and is deterministic: a
\* second run over the same dataset, epochs and pad_batches yields the same
\* tuples (inputs, labels and weights) in the same order as the first, and as
\* many, whatever the predict argument of either run.
GeneratorIgnoresPredict ==
  second.pc # "absent" =>
    LET K2 == Len(second.yielded)
    IN /\ K2 <= Len(yielded)
       /\ K2 > 0 => second.yielded[K2] = yielded[K2]
       /\ second.pc = "exhausted" => K2 = Len(yielded)

\* two exhausted runs with different predict arguments over padded batches
GeneratorIgnoresPredictWitness ==
  /\ second.pc = "exhausted"
  /\ second.predict # predict
  /\ pad_batches
  /\ Len(second.yielded) >= 4

====
